---- MODULE Spec2Model ----
(***************************************************************************)
(* A model of ulit/parsers/akomantoso.py (class AkomaNtosoParser).         *)
(*                                                                         *)
(* An lxml element tree is a record of functions over node numbers:        *)
(*   tag[n]    the qualified tag ("akn:p", or "body" without a namespace)  *)
(*   attr[n]   the attributes, a set of <<name, value>> pairs              *)
(*   text[n]   the element's text, a sequence of tokens; <<>> is None      *)
(*   tail[n]   the element's tail, a sequence of tokens; <<>> is None      *)
(*   kids[n]   the children, in document order                             *)
(*   parent[n] the parent, 0 for the root and for a detached element       *)
(* A string is a sequence of tokens; the token " " is white space.         *)
(* A Python value is a record [k, v]: None, a string, a list, a dict.      *)
(***************************************************************************)
EXTENDS Integers, Sequences, FiniteSets, TLC

VARIABLES
    heap,       \* the element trees in memory, by handle (mutated in place)
    root,       \* self.root: 0 when unset, else the handle of the loaded tree
    body,       \* self.body: Unset, None, or the element Elem(handle, node)
    act,        \* self.act: Unset, None, or the element Elem(handle, node)
    chapters,   \* self.chapters: Unset or a list of records
    articles,   \* self.articles: Unset or a list of records
    loaded,     \* the file self.root was parsed from (NoFile before any load)
    done,       \* the removals of notes made in the loaded tree so far
    last        \* the last call: its name, arguments, outcome and value

vars == <<heap, root, body, act, chapters, articles, loaded, done, last>>

--------------------------------------------------------------------------
(* Python values *)

None == [k |-> "None", v |-> <<>>]
Str(s) == [k |-> "str", v |-> s]
List(s) == [k |-> "list", v |-> s]
Dict(d) == [k |-> "dict", v |-> d]
Unset == [k |-> "unset", v |-> <<>>]
Elem(d, n) == [k |-> "elem", v |-> <<d, n>>]

\* Python truth of a string-or-None value: None and '' are false.
Truthy(x) == x.k = "str" /\ x.v # <<>>

--------------------------------------------------------------------------
(* Strings *)

IsSpace(c) == c = " "

RECURSIVE LStrip(_)
LStrip(s) ==
    IF s # <<>> /\ IsSpace(Head(s)) THEN LStrip(Tail(s)) ELSE s

RECURSIVE RStrip(_)
RStrip(s) ==
    IF s # <<>> /\ IsSpace(s[Len(s)]) THEN RStrip(SubSeq(s, 1, Len(s) - 1)) ELSE s

\* str.strip()
Strip(s) == RStrip(LStrip(s))

\* sep.join(parts), parts a sequence of strings
RECURSIVE Join(_, _)
Join(sep, parts) ==
    IF parts = <<>> THEN <<>>
    ELSE IF Len(parts) = 1 THEN parts[1]
    ELSE parts[1] \o sep \o Join(sep, Tail(parts))

--------------------------------------------------------------------------
(* lxml elements *)

\* element.text / element.tail: None when there is none
TextOf(t, n) == IF t.text[n] = <<>> THEN None ELSE Str(t.text[n])
TailOf(t, n) == IF t.tail[n] = <<>> THEN None ELSE Str(t.tail[n])

\* element.get(name): None when the attribute is missing
Get(t, n, name) ==
    IF \E p \in t.attr[n] : p[1] = name
    THEN Str((CHOOSE p \in t.attr[n] : p[1] = name)[2])
    ELSE None

\* The descendants of n in document order (n itself excluded).
RECURSIVE DescSeq(_, _)
RECURSIVE DescOfKids(_, _)
DescOfKids(t, ks) ==
    IF ks = <<>> THEN <<>>
    ELSE <<Head(ks)>> \o DescSeq(t, Head(ks)) \o DescOfKids(t, Tail(ks))
DescSeq(t, n) == DescOfKids(t, t.kids[n])

\* list(element.itertext()): the text chunks of n's subtree in document
\* order: its text, then for each child its chunks and its tail.
RECURSIVE IterText(_, _)
RECURSIVE IterKids(_, _)
IterKids(t, ks) ==
    IF ks = <<>> THEN <<>>
    ELSE IterText(t, Head(ks))
         \o (IF t.tail[Head(ks)] = <<>> THEN <<>> ELSE <<t.tail[Head(ks)]>>)
         \o IterKids(t, Tail(ks))
IterText(t, n) ==
    (IF t.text[n] = <<>> THEN <<>> ELSE <<t.text[n]>>) \o IterKids(t, t.kids[n])

\* ''.join(element.itertext())
FullText(t, n) == Join(<<>>, IterText(t, n))

\* A selector is a path of steps; the step "desc" is './/tag' (every
\* descendant with the tag), the step "child" is 'tag' (every child).
Sel(kind, tag) == [kind |-> kind, tag |-> tag]

\* element.findall(step): the matches in document order.
FindAll(t, n, sel) ==
    LET cand == IF sel.kind = "desc" THEN DescSeq(t, n) ELSE t.kids[n]
    IN  SelectSeq(cand, LAMBDA m : t.tag[m] = sel.tag)

\* element.find(step): the first match, 0 for None.
Find(t, n, sel) ==
    LET ms == FindAll(t, n, sel) IN IF ms = <<>> THEN 0 ELSE ms[1]

\* element.findall('.//a/b') and element.find('.//a/b'): the b children of
\* the a descendants, in document order.
FindAll2(t, n, a, b) ==
    SelectSeq(DescSeq(t, n),
              LAMBDA m : t.tag[m] = b /\ t.parent[m] # 0
                         /\ t.tag[t.parent[m]] = a /\ t.parent[m] # n)
Find2(t, n, a, b) ==
    LET ms == FindAll2(t, n, a, b) IN IF ms = <<>> THEN 0 ELSE ms[1]

--------------------------------------------------------------------------
(* remove_node *)

Without(s, x) == SelectSeq(s, LAMBDA y : y # x)

\* One round of the loop of remove_node, for one matched item.
RemoveItem(t, item) ==
    LET parent == t.parent[item]
        tail_text == t.tail[item]
        rest == Without(t.kids[parent], item)
        \* parent.remove(item): the element leaves with its tail
        t1 == [t EXCEPT !.kids[parent] = rest, !.parent[item] = 0]
    IN  IF tail_text # <<>>
        THEN IF rest # <<>>
             THEN LET previous_sibling == rest[Len(rest)]
                  IN  [t1 EXCEPT !.tail[previous_sibling] = @ \o tail_text]
             ELSE [t1 EXCEPT !.text[parent] = @ \o tail_text]
        ELSE t1

\* The loop left after its first round (a return inside the loop).
RemoveItemsFirstOnly(t, items) ==
    IF items = <<>> THEN t ELSE RemoveItem(t, Head(items))

RECURSIVE RemoveItems(_, _)
RemoveItems(t, items) ==
    IF items = <<>> THEN t
    ELSE RemoveItems(RemoveItem(t, Head(items)), Tail(items))

\* remove_node(tree, node): the list of matches is taken first, then each
\* is removed in turn.
RemoveNode(t, n, sel) == RemoveItems(t, FindAll(t, n, sel))

--------------------------------------------------------------------------
(* get_text_by_eId *)

\* The while loop: from the element upwards to the first element with a
\* true eId; the value it ends with is the last one read.
\* The walk stopping at any eId that is not None, the empty one included.
RECURSIVE NearestEIdNotNone(_, _)
NearestEIdNotNone(t, current_element) ==
    LET eId == Get(t, current_element, "eId")
    IN  IF eId # None THEN eId
        ELSE IF t.parent[current_element] = 0 THEN eId
        ELSE NearestEIdNotNone(t, t.parent[current_element])

RECURSIVE NearestEId(_, _)
NearestEId(t, current_element) ==
    LET eId == Get(t, current_element, "eId")
    IN  IF Truthy(eId) THEN eId
        ELSE IF t.parent[current_element] = 0 THEN eId
        ELSE NearestEId(t, t.parent[current_element])

\* The body of the for loop: what one p appends to elements.
TextEntry(t, p) ==
    LET eId == NearestEId(t, p)
    IN  IF Truthy(eId)
        THEN <<Dict([eId |-> eId, text |-> Str(Strip(FullText(t, p)))])>>
        ELSE <<>>

RECURSIVE TextEntries(_, _)
TextEntries(t, ps) ==
    IF ps = <<>> THEN <<>>
    ELSE TextEntry(t, Head(ps)) \o TextEntries(t, Tail(ps))

\* The entries kept in a map keyed by eId: one entry per eId.
RECURSIVE OnePerEId(_, _)
OnePerEId(es, seen) ==
    IF es = <<>> THEN <<>>
    ELSE IF Head(es).v.eId \in seen THEN OnePerEId(Tail(es), seen)
    ELSE <<Head(es)>> \o OnePerEId(Tail(es), seen \cup {Head(es).v.eId})
GetTextByEIdGrouped(t, node) ==
    List(OnePerEId(TextEntries(t, FindAll(t, node, Sel("desc", "akn:p"))), {}))

GetTextByEId(t, node) == List(TextEntries(t, FindAll(t, node, Sel("desc", "akn:p"))))

--------------------------------------------------------------------------
(* Paths of several steps *)

Front(s) == SubSeq(s, 1, Len(s) - 1)

\* m is reached from n by './/path[1]/path[2]/...': m has the last tag, its
\* parent the one before, and so on, all of them strictly beneath n.
RECURSIVE MatchUp(_, _, _, _)
MatchUp(t, m, path, n) ==
    /\ m # 0 /\ m # n
    /\ t.tag[m] = path[Len(path)]
    /\ (Len(path) = 1 \/ MatchUp(t, t.parent[m], Front(path), n))

\* element.findall('.//a/b/c') and element.find('.//a/b/c')
FindAllPath(t, n, path) == SelectSeq(DescSeq(t, n), LAMBDA m : MatchUp(t, m, path, n))
FindPath(t, n, path) ==
    LET ms == FindAllPath(t, n, path) IN IF ms = <<>> THEN 0 ELSE ms[1]

\* element.find('tag'): the first child with the tag, 0 for None
Child(t, n, tag) == Find(t, n, Sel("child", tag))
Children(t, n, tag) == FindAll(t, n, Sel("child", tag))

\* The outcome of a call: it returns a value or raises; either way it may
\* have changed the tree.
Ok(val, t) == [out |-> "ok", val |-> val, tree |-> t]
Raise(kind, t) == [out |-> kind, val |-> None, tree |-> t]

--------------------------------------------------------------------------
(* The metadata extractors *)

\* The items a group of the identification is read from: the key of the
\* record, the child element, the attribute.
WorkFields ==
    << <<"FRBRthis", "akn:FRBRthis", "value">>,
       <<"FRBRuri", "akn:FRBRuri", "value">>,
       <<"FRBRalias", "akn:FRBRalias", "value">>,
       <<"FRBRdate", "akn:FRBRdate", "date">>,
       <<"FRBRauthor", "akn:FRBRauthor", "href">>,
       <<"FRBRcountry", "akn:FRBRcountry", "value">>,
       <<"FRBRnumber", "akn:FRBRnumber", "value">> >>
ExpressionFields ==
    << <<"FRBRthis", "akn:FRBRthis", "value">>,
       <<"FRBRuri", "akn:FRBRuri", "value">>,
       <<"FRBRdate", "akn:FRBRdate", "date">>,
       <<"FRBRauthor", "akn:FRBRauthor", "href">>,
       <<"FRBRlanguage", "akn:FRBRlanguage", "language">> >>
ManifestationFields ==
    << <<"FRBRthis", "akn:FRBRthis", "value">>,
       <<"FRBRuri", "akn:FRBRuri", "value">>,
       <<"FRBRdate", "akn:FRBRdate", "date">>,
       <<"FRBRauthor", "akn:FRBRauthor", "href">> >>

\* group.find(child).get(attribute) for every field: a child that is not
\* found is None, and None.get raises AttributeError; an attribute that is
\* not there is None.
\* The group read leniently: a child that is not found gives None.
FrbrGroupLenient(t, identification, groupTag, fields) ==
    LET group == Child(t, identification, groupTag)
    IN  IF group = 0 THEN Ok(None, t)
        ELSE Ok(Dict([i \in 1..Len(fields) |->
                        <<fields[i][1],
                          IF Child(t, group, fields[i][2]) = 0 THEN None
                          ELSE Get(t, Child(t, group, fields[i][2]), fields[i][3])>>]), t)

FrbrGroup(t, identification, groupTag, fields) ==
    LET group == Child(t, identification, groupTag)
    IN  IF group = 0 THEN Ok(None, t)
        ELSE IF \E i \in 1..Len(fields) : Child(t, group, fields[i][2]) = 0
        THEN Raise("AttributeError", t)
        ELSE Ok(Dict([i \in 1..Len(fields) |->
                        <<fields[i][1], Get(t, Child(t, group, fields[i][2]), fields[i][3])>>]), t)

GetFrbrWork(t, identification) ==
    FrbrGroup(t, identification, "akn:FRBRWork", WorkFields)
GetFrbrExpression(t, identification) ==
    FrbrGroup(t, identification, "akn:FRBRExpression", ExpressionFields)
GetFrbrManifestation(t, identification) ==
    FrbrGroup(t, identification, "akn:FRBRManifestation", ManifestationFields)

GetMetaIdentification(t, r) ==
    LET identification == FindPath(t, r, <<"akn:meta", "akn:identification">>)
        work == GetFrbrWork(t, identification)
        expression == GetFrbrExpression(t, identification)
        manifestation == GetFrbrManifestation(t, identification)
    IN  IF identification = 0 THEN Ok(None, t)
        ELSE IF work.out # "ok" THEN work
        ELSE IF expression.out # "ok" THEN expression
        ELSE IF manifestation.out # "ok" THEN manifestation
        ELSE Ok(Dict([work |-> work.val, expression |-> expression.val,
                      manifestation |-> manifestation.val]), t)

GetMetaReferences(t, r) ==
    LET references == FindPath(t, r, <<"akn:meta", "akn:references", "akn:TLCOrganization">>)
    IN  IF references = 0 THEN Ok(None, t)
        ELSE Ok(Dict([eId |-> Get(t, references, "eId"),
                      href |-> Get(t, references, "href"),
                      showAs |-> Get(t, references, "showAs")]), t)

GetMetaProprietary(t, r) ==
    LET proprietary == FindPath(t, r, <<"akn:meta", "akn:proprietary">>)
        document_ref == Child(t, proprietary, "fmx:DOCUMENT.REF")
    IN  IF proprietary = 0 THEN Ok(None, t)
        ELSE IF document_ref = 0 THEN Ok(None, t)
        ELSE IF \/ Child(t, document_ref, "fmx:COLL") = 0
                \/ Child(t, document_ref, "fmx:YEAR") = 0
                \/ Child(t, proprietary, "fmx:LG.DOC") = 0
                \/ Child(t, proprietary, "fmx:NO.SEQ") = 0
        THEN Raise("AttributeError", t)
        ELSE Ok(Dict([file |-> Get(t, document_ref, "FILE"),
                      coll |-> TextOf(t, Child(t, document_ref, "fmx:COLL")),
                      year |-> TextOf(t, Child(t, document_ref, "fmx:YEAR")),
                      lg_doc |-> TextOf(t, Child(t, proprietary, "fmx:LG.DOC")),
                      no_seq |-> TextOf(t, Child(t, proprietary, "fmx:NO.SEQ"))]), t)

--------------------------------------------------------------------------
(* Preface and preamble *)

Note == Sel("desc", "akn:authorialNote")

\* paragraph_text of every p of the loop of get_preface
ParagraphTexts(t, ps) == [i \in 1..Len(ps) |-> Str(Strip(FullText(t, ps[i])))]

\* get_preface giving an empty list for a missing preface
GetPrefaceEmptyList(t, r) ==
    LET preface == Find(t, r, Sel("desc", "akn:preface"))
    IN  IF preface = 0 THEN Ok(List(<<>>), t)
        ELSE Ok(List(ParagraphTexts(t, Children(t, preface, "akn:p"))), t)

GetPreface(t, r) ==
    LET preface == Find(t, r, Sel("desc", "akn:preface"))
    IN  IF preface = 0 THEN Ok(None, t)
        ELSE Ok(List(ParagraphTexts(t, Children(t, preface, "akn:p"))), t)

\* ' '.join(p.text.strip() for p in element.findall('akn:p') if p.text)
DirectText(t, n) ==
    LET ps == SelectSeq(Children(t, n, "akn:p"), LAMBDA p : t.text[p] # <<>>)
    IN  Join(<<" ">>, [i \in 1..Len(ps) |-> Strip(t.text[ps[i]])])

GetPreambleFormula(t, r) ==
    LET formula == FindPath(t, r, <<"akn:preamble", "akn:formula">>)
    IN  IF formula = 0 THEN Ok(None, t) ELSE Ok(Str(DirectText(t, formula)), t)

\* The record of every citation of the loop of get_preamble_citations
CitationRecords(t, cs) ==
    [i \in 1..Len(cs) |-> Dict([citation_text |-> Str(Strip(FullText(t, cs[i])))])]

GetPreambleCitations(t, r) ==
    LET citations_section == FindPath(t, r, <<"akn:preamble", "akn:citations">>)
        t1 == RemoveNode(t, citations_section, Note)
    IN  IF citations_section = 0 THEN Ok(None, t)
        ELSE Ok(List(CitationRecords(t1, Children(t1, citations_section, "akn:citation"))), t1)

\* re.sub(r'\s+', ' ', s): every run of white space becomes one space
RECURSIVE CollapseSpaces(_)
CollapseSpaces(s) ==
    IF s = <<>> THEN <<>>
    ELSE IF IsSpace(Head(s))
         THEN <<" ">> \o CollapseSpaces(LStrip(s))
         ELSE <<Head(s)>> \o CollapseSpaces(Tail(s))

\* str(x) of a string or None
StrOf(x) == IF x = None THEN Str(<<"None">>) ELSE x

\* ' '.join(' '.join(p.itertext()).strip() for p in recital.findall('akn:p'))
RecitalText(t, recital) ==
    LET ps == Children(t, recital, "akn:p")
    IN  Join(<<" ">>, [i \in 1..Len(ps) |-> Strip(Join(<<" ">>, IterText(t, ps[i])))])

\* The record of every recital of the loop of get_preamble_recitals
RecitalRecords(t, rs) ==
    [i \in 1..Len(rs) |->
        Dict([recital_text |-> Str(CollapseSpaces(RecitalText(t, rs[i]))),
              eId |-> StrOf(Get(t, rs[i], "eId"))])]

GetPreambleRecitals(t, r) ==
    LET recitals_section == FindPath(t, r, <<"akn:preamble", "akn:recitals">>)
        recitals_intro == Child(t, recitals_section, "akn:intro")
        intro == Dict([recital_text |-> Str(DirectText(t, recitals_intro)),
                       eId |-> Get(t, recitals_intro, "eId")])
        t1 == RemoveNode(t, recitals_section, Note)
    IN  IF recitals_section = 0 THEN Ok(None, t)
        ELSE IF recitals_intro = 0 THEN Raise("AttributeError", t)
        ELSE Ok(List(<<intro>> \o
                     RecitalRecords(t1, Children(t1, recitals_section, "akn:recital"))), t1)

\* The three parts are read in this order, each on the tree the one before
\* left; the first that raises ends the call.
GetPreamble(t, r) ==
    LET formula == GetPreambleFormula(t, r)
        citations == GetPreambleCitations(formula.tree, r)
        recitals == GetPreambleRecitals(citations.tree, r)
    IN  IF recitals.out # "ok" THEN recitals
        ELSE Ok(Dict([formula |-> formula.val, citations |-> citations.val,
                      recitals |-> recitals.val]), recitals.tree)

--------------------------------------------------------------------------
(* Act, body, chapters, articles *)

\* root.find('.//akn:x'), and root.find('.//x') when that finds nothing
Locate(t, r, tag, bare) ==
    LET x == Find(t, r, Sel("desc", tag))
    IN  IF x # 0 THEN x ELSE Find(t, r, Sel("desc", bare))

\* The record with the heading read like the number: its direct text.
ChapterRecordDirectHeading(t, chapter) ==
    LET chapter_num == Child(t, chapter, "akn:num")
        chapter_heading == Child(t, chapter, "akn:heading")
    IN  Dict([eId |-> Get(t, chapter, "eId"),
              chapter_num |-> IF chapter_num # 0 THEN TextOf(t, chapter_num) ELSE None,
              chapter_heading |-> IF chapter_heading # 0
                                  THEN TextOf(t, chapter_heading) ELSE None])

ChapterRecord(t, chapter) ==
    LET chapter_num == Child(t, chapter, "akn:num")
        chapter_heading == Child(t, chapter, "akn:heading")
    IN  Dict([eId |-> Get(t, chapter, "eId"),
              chapter_num |-> IF chapter_num # 0 THEN TextOf(t, chapter_num) ELSE None,
              chapter_heading |-> IF chapter_heading # 0
                                  THEN Str(Strip(FullText(t, chapter_heading)))
                                  ELSE None])

GetChapters(t, r) ==
    LET cs == FindAll(t, r, Sel("desc", "akn:chapter"))
    IN  List([i \in 1..Len(cs) |-> ChapterRecord(t, cs[i])])

\* The record with the title taken from the first num child when there is
\* no heading.
ArticleRecordFirstNum(t, article) ==
    LET article_num == Child(t, article, "akn:num")
        heading == Child(t, article, "akn:heading")
        article_title_element == IF heading # 0 THEN heading ELSE article_num
    IN  Dict([eId |-> Get(t, article, "eId"),
              article_num |-> IF article_num # 0 THEN TextOf(t, article_num) ELSE None,
              article_title |-> IF article_title_element # 0
                                THEN TextOf(t, article_title_element) ELSE None,
              article_text |-> GetTextByEId(t, article)])

ArticleRecord(t, article) ==
    LET article_num == Child(t, article, "akn:num")
        nums == Children(t, article, "akn:num")
        heading == Child(t, article, "akn:heading")
        article_title_element ==
            IF heading # 0 THEN heading
            ELSE IF Len(nums) > 1 THEN nums[2] ELSE 0
    IN  Dict([eId |-> Get(t, article, "eId"),
              article_num |-> IF article_num # 0 THEN TextOf(t, article_num) ELSE None,
              article_title |-> IF article_title_element # 0
                                THEN TextOf(t, article_title_element) ELSE None,
              article_text |-> GetTextByEId(t, article)])

\* get_articles from the removal of the notes on: b is the body element
GetArticles(t, b) ==
    LET t1 == RemoveNode(t, b, Note)
        as == FindAll(t1, b, Sel("desc", "akn:article"))
    IN  Ok(List([i \in 1..Len(as) |-> ArticleRecord(t1, as[i])]), t1)

--------------------------------------------------------------------------
(* Bounds *)

\* The number of elements of a tree drawn for remove_node and for
\* get_text_by_eId.
MaxNodes == 4

TextTok == <<"t1", "t2", "t3", "t4", "t5", "t6">>
TailTok == <<"l1", "l2", "l3", "l4", "l5", "l6">>

--------------------------------------------------------------------------
(* The trees a parse can produce, up to MaxNodes elements: every shape,  *)
(* element i with text <<TextTok[i]>> or none, tail <<TailTok[i]>> or     *)
(* none (the root of a parsed document has no tail). At most one element  *)
(* of a drawn tree is without text.                                       *)

Nodes == 1..MaxNodes

Shapes == {p \in [Nodes -> 0..(MaxNodes - 1)] :
              p[1] = 0 /\ \A i \in 2..MaxNodes : p[i] >= 1 /\ p[i] < i}

RECURSIVE Ascending(_)
Ascending(S) ==
    IF S = {} THEN <<>>
    ELSE LET m == CHOOSE x \in S : \A y \in S : x <= y
         IN  <<m>> \o Ascending(S \ {m})

TextChoices == {Nodes} \cup {Nodes \ {i} : i \in Nodes}

Tree(par, tags, attrs, texts, tails) ==
    [tag    |-> tags,
     attr   |-> attrs,
     text   |-> texts,
     tail   |-> tails,
     kids   |-> [i \in DOMAIN par |-> Ascending({j \in DOMAIN par : par[j] = i})],
     parent |-> par]

\* A file: its name and, for a variant of a document, what is cut out.
File(name, cut) == [name |-> name, cut |-> cut]
NoFile == File("", {})
GivenTree == File("tree", {})

NoCall == [op |-> "none", arg |-> <<>>, out |-> "none", val |-> None, before |-> <<>>]

--------------------------------------------------------------------------
(* remove_node on any subtree of any tree *)

StripTags == {"akn:authorialNote", "akn:b"}
StripSels == {Sel("desc", "akn:authorialNote"), Sel("child", "akn:authorialNote")}

StripTrees ==
    {Tree(par, [i \in Nodes |-> IF i = 1 THEN "akn:p" ELSE tg[i]],
          [i \in Nodes |-> {}],
          [i \in Nodes |-> IF i \in wx THEN <<TextTok[i]>> ELSE <<>>],
          [i \in Nodes |-> IF i \in wl THEN <<TailTok[i]>> ELSE <<>>]) :
        par \in Shapes, tg \in [Nodes -> StripTags],
        wx \in TextChoices, wl \in SUBSET (2..MaxNodes)}

InitStrip ==
    /\ heap \in {<<t>> : t \in StripTrees}
    /\ root = 1
    /\ body = Unset /\ act = Unset /\ chapters = Unset /\ articles = Unset
    /\ loaded = GivenTree
    /\ done = {}
    /\ last = NoCall

\* remove_node(tree, node) with tree the element n of the loaded tree
CallRemoveNode ==
    /\ last.op = "none"
    /\ \E n \in Nodes, sel \in StripSels :
          /\ heap' = [heap EXCEPT ![1] = RemoveNode(heap[1], n, sel)]
          /\ last' = [op |-> "remove_node", arg |-> <<n, sel>>, out |-> "ok",
                      val |-> Elem(1, n), before |-> <<heap[1]>>]
    /\ UNCHANGED <<root, body, act, chapters, articles, loaded, done>>

\* remove_node again on the subtree the first call returned
CallRemoveNodeAgain ==
    /\ last.op = "remove_node"
    /\ heap' = [heap EXCEPT ![1] = RemoveNode(heap[1], last.arg[1], last.arg[2])]
    /\ last' = [last EXCEPT !.op = "remove_node_again", !.before = @ \o <<heap[1]>>]
    /\ UNCHANGED <<root, body, act, chapters, articles, loaded, done>>

NextStrip == CallRemoveNode \/ CallRemoveNodeAgain

SpecStrip == InitStrip /\ [][NextStrip]_vars

--------------------------------------------------------------------------
(* C1, C5: remove_node *)

\* The preservation rule as stated: the tail of the removed element goes to
\* the tail of the sibling just before it, and to the parent's text when it
\* is the first child.
RuleRemoveItem(t, item) ==
    LET parent == t.parent[item]
        ks == t.kids[parent]
        pos == CHOOSE i \in 1..Len(ks) : ks[i] = item
        t1 == [t EXCEPT !.kids[parent] = Without(ks, item), !.parent[item] = 0]
    IN  IF pos > 1
        THEN [t1 EXCEPT !.tail[ks[pos - 1]] = @ \o t.tail[item]]
        ELSE [t1 EXCEPT !.text[parent] = @ \o t.tail[item]]

RECURSIVE RuleRemoveItems(_, _)
RuleRemoveItems(t, items) ==
    IF items = <<>> THEN t
    ELSE RuleRemoveItems(RuleRemoveItem(t, Head(items)), Tail(items))

\* The text of n's subtree in document order with the content of the
\* elements of M left out and their tails kept.
RECURSIVE KeptText(_, _, _)
RECURSIVE KeptKids(_, _, _)
KeptKids(t, ks, M) ==
    IF ks = <<>> THEN <<>>
    ELSE (IF Head(ks) \in M THEN <<>> ELSE KeptText(t, Head(ks), M))
         \o t.tail[Head(ks)] \o KeptKids(t, Tail(ks), M)
KeptText(t, n, M) == t.text[n] \o KeptKids(t, t.kids[n], M)

Range(s) == {s[i] : i \in 1..Len(s)}

\* C1: after remove_node every removed element's tail is where the rule
\* puts it (the preceding sibling's tail, else the parent's text), so the
\* remaining text of the subtree keeps its document order.
C1_TailStaysInPlace ==
    last.op = "remove_node" =>
        LET t0 == last.before[1]
            n == last.arg[1]
            items == FindAll(t0, n, last.arg[2])
            rule == RuleRemoveItems(t0, items)
        IN  /\ \A m \in {n} \cup Range(DescSeq(heap[1], n)) :
                  /\ heap[1].text[m] = rule.text[m]
                  /\ m # n => heap[1].tail[m] = rule.tail[m]
            /\ FullText(heap[1], n) = KeptText(t0, n, Range(items))

--------------------------------------------------------------------------
(* get_text_by_eId on any element of any tree *)

TextTags == {"akn:p", "akn:paragraph"}
EIdTok == <<"e1", "e2", "e3", "e4", "e5", "e6">>

\* An element has no eId, an empty eId or an eId of its own.
EIdChoices == {"absent", "empty", "own"}

TextTrees ==
    {Tree(par, [i \in Nodes |-> IF i = 1 THEN "akn:paragraph" ELSE tg[i]],
          [i \in Nodes |-> CASE ids[i] = "absent" -> {}
                             [] ids[i] = "empty" -> {<<"eId", <<>>>>}
                             [] OTHER -> {<<"eId", <<EIdTok[i]>>>>}],
          [i \in Nodes |-> <<" ", TextTok[i]>>],
          [i \in Nodes |-> IF i = 1 THEN <<>> ELSE <<TailTok[i], " ">>]) :
        par \in Shapes, tg \in [Nodes -> TextTags], ids \in [Nodes -> EIdChoices]}

InitText ==
    /\ heap \in {<<t>> : t \in TextTrees}
    /\ root = 1
    /\ body = Unset /\ act = Unset /\ chapters = Unset /\ articles = Unset
    /\ loaded = GivenTree
    /\ done = {}
    /\ last = NoCall

\* get_text_by_eId(node) with node the element n of the loaded tree
CallGetTextByEId ==
    /\ last.op = "none"
    /\ \E n \in Nodes :
          last' = [op |-> "get_text_by_eId", arg |-> <<n>>, out |-> "ok",
                   val |-> GetTextByEId(heap[1], n), before |-> <<>>]
    /\ UNCHANGED <<heap, root, body, act, chapters, articles, loaded, done>>

NextText == CallGetTextByEId

SpecText == InitText /\ [][NextText]_vars

--------------------------------------------------------------------------
(* C2, C3: get_text_by_eId *)

\* The element and its ancestors up to the root of the document.
RECURSIVE AncSelf(_, _)
AncSelf(t, n) ==
    {n} \cup (IF t.parent[n] = 0 THEN {} ELSE AncSelf(t, t.parent[n]))

HasEId(t, n) == \E p \in t.attr[n] : p[1] = "eId" /\ p[2] # <<>>

Identified(t, p) == \E a \in AncSelf(t, p) : HasEId(t, a)

\* The identified element closest to p: every other one is above it.
Nearest(t, p) ==
    CHOOSE a \in AncSelf(t, p) :
        HasEId(t, a) /\ \A b \in AncSelf(t, p) : HasEId(t, b) => b \in AncSelf(t, a)

\* The paragraphs beneath n that have an identified element on their path,
\* in document order.
IdentifiedParas(t, n) ==
    SelectSeq(DescSeq(t, n), LAMBDA p : t.tag[p] = "akn:p" /\ Identified(t, p))

\* C2: the entries of get_text_by_eId are those of the paragraphs beneath
\* the node that have an element with a non-empty eId on the path from the
\* paragraph up to the root, each with the eId of the nearest such element.
C2_NearestIdentified ==
    last.op = "get_text_by_eId" =>
        LET t == heap[1]
            ips == IdentifiedParas(t, last.arg[1])
            es == last.val.v
        IN  /\ Len(es) = Len(ips)
            /\ \A i \in 1..Len(es) :
                  es[i].v.eId = Str((CHOOSE a \in t.attr[Nearest(t, ips[i])] : a[1] = "eId")[2])

\* A paragraph with an empty eId of its own, beneath a node without an
\* eId, takes the eId of an element above the node.
C2_Witness ==
    /\ last.op = "get_text_by_eId"
    /\ LET t == heap[1]
           n == last.arg[1]
       IN  /\ ~HasEId(t, n) /\ t.parent[n] # 0
           /\ \E p \in Range(DescSeq(t, n)) :
                 /\ t.tag[p] = "akn:p"
                 /\ Get(t, p, "eId") = Str(<<>>)
                 /\ Identified(t, p)
                 /\ Nearest(t, p) \in AncSelf(t, t.parent[n])
                 /\ \E i \in 1..Len(last.val.v) :
                       last.val.v[i].v.eId = Get(t, Nearest(t, p), "eId")

--------------------------------------------------------------------------
(* Files *)

\* The document of the extraction sessions: every section, and a note in
\* the citation, in the intro, in the recital and in the chapter heading.
\*    1 <akn:akomaNtoso> ''
\*    2   <akn:act> ''
\*    3     <akn:meta> ''
\*    4       <akn:identification> ''
\*    5       <akn:references> ''
\*    6         <akn:TLCOrganization eId="org" href="h" showAs="EU"> ''
\*    7     <akn:preface> ''
\*    8       <akn:p> 'Title'
\*    9     <akn:preamble> ''
\*   10       <akn:formula> ''
\*   11         <akn:p> ' TheParliament'
\*   12       <akn:citations> ''
\*   13         <akn:citation> ''
\*   14           <akn:p> 'Having regard'
\*   15             <akn:authorialNote> 'OJ' tail ' toX '
\*   16       <akn:recitals> ''
\*   17         <akn:intro eId="rec_intro"> ''
\*   18           <akn:p> 'Whereas'
\*   19             <akn:authorialNote> 'n1' tail ':'
\*   20         <akn:recital eId="rec_1"> ''
\*   21           <akn:p> 'First '
\*   22             <akn:authorialNote> 'n2' tail '  reason'
\*   23     <akn:body> ''
\*   24       <akn:chapter eId="chp_1"> ''
\*   25         <akn:num> 'CHAPTERI'
\*   26         <akn:heading> 'General'
\*   27           <akn:authorialNote> 'n3' tail ' provisions'
\*   28         <akn:article eId="art_1"> ''
\*   29           <akn:num> 'Article1'
\*   30           <akn:heading> 'Scope'
\*   31           <akn:paragraph eId="art_1__para_1"> ''
\*   32             <akn:p> 'one'
\*   33           <akn:paragraph eId="art_1__para_2"> ''
\*   34             <akn:p> 'two '
FullDoc ==
    [tag    |-> <<"akn:akomaNtoso", "akn:act", "akn:meta",
            "akn:identification", "akn:references", "akn:TLCOrganization",
            "akn:preface", "akn:p", "akn:preamble", "akn:formula", "akn:p",
            "akn:citations", "akn:citation", "akn:p", "akn:authorialNote",
            "akn:recitals", "akn:intro", "akn:p", "akn:authorialNote",
            "akn:recital", "akn:p", "akn:authorialNote", "akn:body",
            "akn:chapter", "akn:num", "akn:heading", "akn:authorialNote",
            "akn:article", "akn:num", "akn:heading", "akn:paragraph",
            "akn:p", "akn:paragraph", "akn:p">>,
     parent |-> <<0, 1, 2, 3, 3, 5, 2, 7, 2, 9, 10, 9, 12, 13, 14, 9, 16, 17,
            18, 16, 20, 21, 2, 23, 24, 24, 26, 24, 28, 28, 28, 31, 28, 33>>,
     attr   |-> <<{}, {}, {}, {}, {},
            {<<"eId", <<"org">>>>, <<"href", <<"h">>>>, <<"showAs", <<"EU">>>>},
            {}, {}, {}, {}, {}, {}, {}, {}, {}, {},
            {<<"eId", <<"rec_intro">>>>}, {}, {}, {<<"eId", <<"rec_1">>>>},
            {}, {}, {}, {<<"eId", <<"chp_1">>>>}, {}, {}, {},
            {<<"eId", <<"art_1">>>>}, {}, {},
            {<<"eId", <<"art_1__para_1">>>>}, {},
            {<<"eId", <<"art_1__para_2">>>>}, {}>>,
     text   |-> <<<<>>, <<>>, <<>>, <<>>, <<>>, <<>>, <<>>, <<"Title">>,
            <<>>, <<>>, <<" ", "The", "Parliament">>, <<>>, <<>>,
            <<"Having", " ", "regard">>, <<"OJ">>, <<>>, <<>>, <<"Whereas">>,
            <<"n1">>, <<>>, <<"First", " ">>, <<"n2">>, <<>>, <<>>,
            <<"CHAPTER", "I">>, <<"General">>, <<"n3">>, <<>>,
            <<"Article", "1">>, <<"Scope">>, <<>>, <<"one">>, <<>>,
            <<"two", " ">>>>,
     tail   |-> <<<<>>, <<>>, <<>>, <<>>, <<>>, <<>>, <<>>, <<>>, <<>>, <<>>,
            <<>>, <<>>, <<>>, <<>>, <<" ", "to", "X", " ">>, <<>>, <<>>,
            <<>>, <<":">>, <<>>, <<>>, <<" ", " ", "reason">>, <<>>, <<>>,
            <<>>, <<>>, <<" ", "provisions">>, <<>>, <<>>, <<>>, <<>>, <<>>,
            <<>>, <<>>>>]

\* The document of the metadata extractors: a complete meta block.
\*    1 <akn:akomaNtoso> ''
\*    2   <akn:act> ''
\*    3     <akn:meta> ''
\*    4       <akn:identification> ''
\*    5         <akn:FRBRWork> ''
\*    6           <akn:FRBRthis value="v"> ''
\*    7           <akn:FRBRuri value="v"> ''
\*    8           <akn:FRBRalias value="v"> ''
\*    9           <akn:FRBRdate date="v"> ''
\*   10           <akn:FRBRauthor href="v"> ''
\*   11           <akn:FRBRcountry value="v"> ''
\*   12           <akn:FRBRnumber value="v"> ''
\*   13         <akn:FRBRExpression> ''
\*   14           <akn:FRBRthis value="v"> ''
\*   15           <akn:FRBRuri value="v"> ''
\*   16           <akn:FRBRdate date="v"> ''
\*   17           <akn:FRBRauthor href="v"> ''
\*   18           <akn:FRBRlanguage language="v"> ''
\*   19         <akn:FRBRManifestation> ''
\*   20           <akn:FRBRthis value="v"> ''
\*   21           <akn:FRBRuri value="v"> ''
\*   22           <akn:FRBRdate date="v"> ''
\*   23           <akn:FRBRauthor href="v"> ''
\*   24       <akn:references> ''
\*   25         <akn:TLCOrganization eId="v" href="v" showAs="v"> ''
\*   26       <akn:proprietary> ''
\*   27         <fmx:DOCUMENT.REF FILE="v"> ''
\*   28           <fmx:COLL> 'L'
\*   29           <fmx:YEAR> '2024'
\*   30         <fmx:LG.DOC> 'EN'
\*   31         <fmx:NO.SEQ> '0001'
MetaDoc ==
    [tag    |-> <<"akn:akomaNtoso", "akn:act", "akn:meta",
            "akn:identification", "akn:FRBRWork", "akn:FRBRthis",
            "akn:FRBRuri", "akn:FRBRalias", "akn:FRBRdate", "akn:FRBRauthor",
            "akn:FRBRcountry", "akn:FRBRnumber", "akn:FRBRExpression",
            "akn:FRBRthis", "akn:FRBRuri", "akn:FRBRdate", "akn:FRBRauthor",
            "akn:FRBRlanguage", "akn:FRBRManifestation", "akn:FRBRthis",
            "akn:FRBRuri", "akn:FRBRdate", "akn:FRBRauthor",
            "akn:references", "akn:TLCOrganization", "akn:proprietary",
            "fmx:DOCUMENT.REF", "fmx:COLL", "fmx:YEAR", "fmx:LG.DOC",
            "fmx:NO.SEQ">>,
     parent |-> <<0, 1, 2, 3, 4, 5, 5, 5, 5, 5, 5, 5, 4, 13, 13, 13, 13, 13,
            4, 19, 19, 19, 19, 3, 24, 3, 26, 27, 27, 26, 26>>,
     attr   |-> <<{}, {}, {}, {}, {}, {<<"value", <<"v">>>>},
            {<<"value", <<"v">>>>}, {<<"value", <<"v">>>>},
            {<<"date", <<"v">>>>}, {<<"href", <<"v">>>>},
            {<<"value", <<"v">>>>}, {<<"value", <<"v">>>>}, {},
            {<<"value", <<"v">>>>}, {<<"value", <<"v">>>>},
            {<<"date", <<"v">>>>}, {<<"href", <<"v">>>>},
            {<<"language", <<"v">>>>}, {}, {<<"value", <<"v">>>>},
            {<<"value", <<"v">>>>}, {<<"date", <<"v">>>>},
            {<<"href", <<"v">>>>}, {},
            {<<"eId", <<"v">>>>, <<"href", <<"v">>>>, <<"showAs", <<"v">>>>},
            {}, {<<"FILE", <<"v">>>>}, {}, {}, {}, {}>>,
     text   |-> <<<<>>, <<>>, <<>>, <<>>, <<>>, <<>>, <<>>, <<>>, <<>>, <<>>,
            <<>>, <<>>, <<>>, <<>>, <<>>, <<>>, <<>>, <<>>, <<>>, <<>>, <<>>,
            <<>>, <<>>, <<>>, <<>>, <<>>, <<>>, <<"L">>, <<"2024">>,
            <<"EN">>, <<"0001">>>>,
     tail   |-> <<<<>>, <<>>, <<>>, <<>>, <<>>, <<>>, <<>>, <<>>, <<>>, <<>>,
            <<>>, <<>>, <<>>, <<>>, <<>>, <<>>, <<>>, <<>>, <<>>, <<>>, <<>>,
            <<>>, <<>>, <<>>, <<>>, <<>>, <<>>, <<>>, <<>>, <<>>, <<>>>>]

\* A first small document: an act with a body, a chapter and an article.
\*    1 <akn:akomaNtoso> ''
\*    2   <akn:act> ''
\*    3     <akn:body> ''
\*    4       <akn:chapter eId="chp_a"> ''
\*    5         <akn:num> 'I'
\*    6         <akn:article eId="art_a"> ''
\*    7           <akn:num> 'A1'
\*    8           <akn:p> 'pa'
DocA ==
    [tag    |-> <<"akn:akomaNtoso", "akn:act", "akn:body", "akn:chapter",
            "akn:num", "akn:article", "akn:num", "akn:p">>,
     parent |-> <<0, 1, 2, 3, 4, 4, 6, 6>>,
     attr   |-> <<{}, {}, {}, {<<"eId", <<"chp_a">>>>}, {},
            {<<"eId", <<"art_a">>>>}, {}, {}>>,
     text   |-> <<<<>>, <<>>, <<>>, <<>>, <<"I">>, <<>>, <<"A1">>, <<"pa">>>>,
     tail   |-> <<<<>>, <<>>, <<>>, <<>>, <<>>, <<>>, <<>>, <<>>>>]

\* A second small document: no act, a body without the namespace.
\*    1 <akn:akomaNtoso> ''
\*    2   <body> ''
\*    3     <akn:chapter eId="chp_b"> ''
\*    4       <akn:heading> 'HB'
\*    5     <akn:article eId="art_b"> ''
\*    6       <akn:num> 'B1'
\*    7       <akn:num> 'TitleB'
\*    8       <akn:p> 'pb'
DocB ==
    [tag    |-> <<"akn:akomaNtoso", "body", "akn:chapter", "akn:heading",
            "akn:article", "akn:num", "akn:num", "akn:p">>,
     parent |-> <<0, 1, 2, 3, 2, 5, 5, 5>>,
     attr   |-> <<{}, {}, {<<"eId", <<"chp_b">>>>}, {},
            {<<"eId", <<"art_b">>>>}, {}, {}, {}>>,
     text   |-> <<<<>>, <<>>, <<>>, <<"HB">>, <<>>, <<"B1">>,
            <<"Title", "B">>, <<"pb">>>>,
     tail   |-> <<<<>>, <<>>, <<>>, <<>>, <<>>, <<>>, <<>>, <<>>>>]

\* A third small document: an act without a body.
\*    1 <akn:akomaNtoso> ''
\*    2   <akn:act> ''
\*    3     <akn:preface> ''
\*    4       <akn:p> 'Onlyapreface'
DocC ==
    [tag    |-> <<"akn:akomaNtoso", "akn:act", "akn:preface", "akn:p">>,
     parent |-> <<0, 1, 2, 3>>,
     attr   |-> <<{}, {}, {}, {}>>,
     text   |-> <<<<>>, <<>>, <<>>, <<"Only", "a", "preface">>>>,
     tail   |-> <<<<>>, <<>>, <<>>, <<>>>>]

\* What is cut out of a document to get a variant of it: <<n, "">> is the
\* element n (with its subtree), <<n, "#text">> its text, <<n, a>> its
\* attribute a.
Variant(base, cut) ==
    Tree([i \in DOMAIN base.parent |-> IF <<i, "">> \in cut THEN 0 ELSE base.parent[i]],
         base.tag,
         [i \in DOMAIN base.parent |-> {a \in base.attr[i] : <<i, a[1]>> \notin cut}],
         [i \in DOMAIN base.parent |-> IF <<i, "#text">> \in cut THEN <<>> ELSE base.text[i]],
         base.tail)

\* The number of items cut out of the full document, and out of the
\* metadata document, in a variant.
MaxCut == 1
MaxMissing == 1

\* The sections of FullDoc that a variant can lack: the preface, the
\* preamble, the citations, the recitals, the intro of the recitals, the
\* body.
FullItems == {<<n, "">> : n \in {7, 9, 12, 16, 17, 23}}

\* The elements below meta, every attribute and every text of MetaDoc.
MetaItems ==
    {<<n, "">> : n \in 3..31}
    \cup UNION {{<<n, a[1]>> : a \in MetaDoc.attr[n]} : n \in 3..31}
    \cup {<<n, "#text">> : n \in 28..31}

\* The subsets of S of at most k elements
RECURSIVE AtMost(_, _)
AtMost(S, k) ==
    IF k = 0 THEN {{}}
    ELSE LET smaller == AtMost(S, k - 1)
         IN  smaller \cup {c \cup {x} : c \in smaller, x \in S}

FullFiles == {File("full", c) : c \in AtMost(FullItems, MaxCut)}
MetaFiles == {File("meta", c) : c \in AtMost(MetaItems, MaxMissing)}
SmallFiles == {File("a", {}), File("b", {}), File("c", {})}
BadFiles == {File("malformed", {}), File("missing", {})}

\* open(file) and etree.parse(f): the file cannot be opened, or it is not
\* well-formed, or it parses to a tree.
\* Every failure of the load reported as a ParseError
ParseOutcomeWrapped(f) ==
    CASE f.name = "missing" -> "ParseError"
      [] f.name = "malformed" -> "ParseError"
      [] OTHER -> "ok"

ParseOutcome(f) ==
    CASE f.name = "missing" -> "FileNotFoundError"
      [] f.name = "malformed" -> "XMLSyntaxError"
      [] OTHER -> "ok"
ParseTree(f) ==
    CASE f.name = "full" -> Variant(FullDoc, f.cut)
      [] f.name = "meta" -> Variant(MetaDoc, f.cut)
      [] f.name = "a" -> Variant(DocA, {})
      [] f.name = "b" -> Variant(DocB, {})
      [] f.name = "c" -> Variant(DocC, {})

\* The exception classes: lxml's XMLSyntaxError is a ParseError,
\* FileNotFoundError is an OSError.
IsParseError(kind) == kind \in {"ParseError", "XMLSyntaxError"}
IsOSError(kind) == kind \in {"OSError", "FileNotFoundError"}

--------------------------------------------------------------------------
(* The parser object and its methods *)

InitParser ==
    /\ heap = <<>>
    /\ root = 0
    /\ body = Unset /\ act = Unset /\ chapters = Unset /\ articles = Unset
    /\ loaded = NoFile
    /\ done = {}
    /\ last = NoCall

Called(op, arg, out, val) ==
    [op |-> op, arg |-> arg, out |-> out, val |-> val, before |-> done]

\* get_root(file) for a file of F, at most max trees being parsed: open
\* or parse raise before self.root is assigned.
GetRoot(F, max) ==
    \E f \in F :
        IF ParseOutcome(f) # "ok"
        THEN /\ last' = Called("get_root", <<f>>, ParseOutcome(f), None)
             /\ UNCHANGED <<heap, root, body, act, chapters, articles, loaded, done>>
        ELSE /\ Len(heap) < max
             /\ heap' = Append(heap, ParseTree(f))
             /\ root' = Len(heap) + 1
             /\ loaded' = f
             /\ done' = {}
             /\ last' = Called("get_root", <<f>>, "ok", Elem(Len(heap) + 1, 1))
             /\ UNCHANGED <<body, act, chapters, articles>>

\* A method called before any load: self.root is not set.
NotLoaded(op) ==
    /\ last' = Called(op, <<>>, "AttributeError", None)
    /\ UNCHANGED <<heap, root, body, act, chapters, articles, loaded, done>>

\* A method that reads self.root and keeps nothing has returned or raised:
\* r is its outcome on the loaded tree, notes the removals of notes made.
Returned(op, r, notes) ==
    /\ heap' = [heap EXCEPT ![root] = r.tree]
    /\ done' = done \cup notes
    /\ last' = Called(op, <<>>, r.out, r.val)
    /\ UNCHANGED <<root, body, act, chapters, articles, loaded>>

CallGetMetaIdentification ==
    IF root = 0 THEN NotLoaded("get_meta_identification")
    ELSE Returned("get_meta_identification", GetMetaIdentification(heap[root], 1), {})

CallGetMetaReferences ==
    IF root = 0 THEN NotLoaded("get_meta_references")
    ELSE Returned("get_meta_references", GetMetaReferences(heap[root], 1), {})

CallGetMetaProprietary ==
    IF root = 0 THEN NotLoaded("get_meta_proprietary")
    ELSE Returned("get_meta_proprietary", GetMetaProprietary(heap[root], 1), {})

CallGetPreface ==
    IF root = 0 THEN NotLoaded("get_preface")
    ELSE Returned("get_preface", GetPreface(heap[root], 1), {})

CallGetPreambleFormula ==
    IF root = 0 THEN NotLoaded("get_preamble_formula")
    ELSE Returned("get_preamble_formula", GetPreambleFormula(heap[root], 1), {})

\* The removals of notes a call has made: the citations are stripped when
\* the section is there, the recitals when the section and its intro are.
CitationNotes(t) ==
    IF FindPath(t, 1, <<"akn:preamble", "akn:citations">>) # 0 THEN {"citations"} ELSE {}
RecitalNotes(t) ==
    LET section == FindPath(t, 1, <<"akn:preamble", "akn:recitals">>)
    IN  IF section # 0 /\ Child(t, section, "akn:intro") # 0 THEN {"recitals"} ELSE {}

CallGetPreambleCitations ==
    IF root = 0 THEN NotLoaded("get_preamble_citations")
    ELSE Returned("get_preamble_citations", GetPreambleCitations(heap[root], 1),
                  CitationNotes(heap[root]))

CallGetPreambleRecitals ==
    IF root = 0 THEN NotLoaded("get_preamble_recitals")
    ELSE Returned("get_preamble_recitals", GetPreambleRecitals(heap[root], 1),
                  RecitalNotes(heap[root]))

CallGetPreamble ==
    IF root = 0 THEN NotLoaded("get_preamble")
    ELSE Returned("get_preamble", GetPreamble(heap[root], 1),
                  CitationNotes(heap[root]) \cup RecitalNotes(heap[root]))

ElemOrNone(d, n) == IF n = 0 THEN None ELSE Elem(d, n)

CallGetAct ==
    IF root = 0 THEN NotLoaded("get_act")
    ELSE /\ act' = ElemOrNone(root, Locate(heap[root], 1, "akn:act", "act"))
         /\ last' = Called("get_act", <<>>, "ok", None)
         /\ UNCHANGED <<heap, root, body, chapters, articles, loaded, done>>

CallGetBody ==
    IF root = 0 THEN NotLoaded("get_body")
    ELSE /\ body' = ElemOrNone(root, Locate(heap[root], 1, "akn:body", "body"))
         /\ last' = Called("get_body", <<>>, "ok", None)
         /\ UNCHANGED <<heap, root, act, chapters, articles, loaded, done>>

\* The list without the reset: the records are appended to the old list.
StoredChaptersNoReset(old, t, r) ==
    List((IF old.k = "list" THEN old.v ELSE <<>>) \o GetChapters(t, r).v)

\* The list get_chapters stores: it is reset, then one record is appended
\* for each chapter.
StoredChapters(old, t, r) == GetChapters(t, r)

\* self.chapters is reset before self.root is read.
CallGetChapters ==
    IF root = 0
    THEN /\ chapters' = List(<<>>)
         /\ last' = Called("get_chapters", <<>>, "AttributeError", None)
         /\ UNCHANGED <<heap, root, body, act, articles, loaded, done>>
    ELSE /\ chapters' = StoredChapters(chapters, heap[root], 1)
         /\ last' = Called("get_chapters", <<>>, "ok", None)
         /\ UNCHANGED <<heap, root, body, act, articles, loaded, done>>

\* self.articles is reset before self.body is read; without self.body, or
\* with a self.body of None, the call raises AttributeError. The body is
\* an element of the tree it was located in.
CallGetArticles ==
    IF body.k # "elem"
    THEN /\ articles' = List(<<>>)
         /\ last' = Called("get_articles", <<>>, "AttributeError", None)
         /\ UNCHANGED <<heap, root, body, act, chapters, loaded, done>>
    ELSE LET d == body.v[1]
             r == GetArticles(heap[d], body.v[2])
         IN  /\ heap' = [heap EXCEPT ![d] = r.tree]
             /\ articles' = r.val
             /\ done' = IF d = root THEN done \cup {"articles"} ELSE done
             /\ last' = Called("get_articles", <<>>, "ok", r.val)
             /\ UNCHANGED <<root, body, act, chapters, loaded>>

Extractions ==
    \/ CallGetMetaIdentification
    \/ CallGetMetaReferences
    \/ CallGetMetaProprietary
    \/ CallGetPreface
    \/ CallGetPreambleFormula
    \/ CallGetPreambleCitations
    \/ CallGetPreambleRecitals
    \/ CallGetPreamble
    \/ CallGetAct
    \/ CallGetBody
    \/ CallGetChapters
    \/ CallGetArticles

\* The number of files one parser loads.
MaxLoads == 2

\* One parser, loading small files one after the other.
Next == GetRoot(SmallFiles \cup BadFiles, MaxLoads) \/ Extractions
Spec == InitParser /\ [][Next]_vars

\* One parser on one variant of the full document.
NextDoc == GetRoot(FullFiles, 1) \/ Extractions
SpecDoc == InitParser /\ [][NextDoc]_vars

\* The metadata extractors on the variants of the metadata document.
InitMeta ==
    /\ \E f \in MetaFiles : heap = <<ParseTree(f)>> /\ loaded = f
    /\ root = 1
    /\ body = Unset /\ act = Unset /\ chapters = Unset /\ articles = Unset
    /\ done = {}
    /\ last = NoCall
NextMeta == CallGetMetaIdentification \/ CallGetMetaReferences \/ CallGetMetaProprietary
SpecMeta == InitMeta /\ [][NextMeta]_vars

--------------------------------------------------------------------------
(* get_chapters on any tree *)

ChapterTags == {"akn:chapter", "akn:num", "akn:heading"}

ChapterTrees ==
    {Tree(par, [i \in Nodes |-> IF i = 1 THEN "akn:akomaNtoso" ELSE tg[i]],
          [i \in Nodes |-> {<<"eId", <<EIdTok[i]>>>>}],
          [i \in Nodes |-> IF i \in wx THEN <<TextTok[i]>> ELSE <<>>],
          [i \in Nodes |-> IF i = 1 THEN <<>> ELSE <<TailTok[i]>>]) :
        par \in Shapes, tg \in [Nodes -> ChapterTags], wx \in TextChoices}

InitChapters ==
    /\ heap \in {<<t>> : t \in ChapterTrees}
    /\ root = 1
    /\ body = Unset /\ act = Unset /\ chapters = Unset /\ articles = Unset
    /\ loaded = GivenTree
    /\ done = {}
    /\ last = NoCall

NextChapters == CallGetChapters
SpecChapters == InitChapters /\ [][NextChapters]_vars

--------------------------------------------------------------------------
(* C9: get_chapters *)

ChapterElems(t) == SelectSeq(DescSeq(t, 1), LAMBDA c : t.tag[c] = "akn:chapter")
HasChild(t, n, tag) == \E c \in Range(t.kids[n]) : t.tag[c] = tag
FirstChild(t, n, tag) ==
    t.kids[n][CHOOSE i \in 1..Len(t.kids[n]) :
                 /\ t.tag[t.kids[n][i]] = tag
                 /\ \A j \in 1..(i - 1) : t.tag[t.kids[n][j]] # tag]

\* The claim as it stands: one record for each chapter, in document order,
\* chapter_num null exactly when there is no num child and chapter_heading
\* null exactly when there is no heading child, and no error.
C9_NullIffNoChild ==
    last.op = "get_chapters" =>
        LET t == heap[root]
            cs == ChapterElems(t)
        IN  /\ last.out = "ok"
            /\ Len(chapters.v) = Len(cs)
            /\ \A i \in 1..Len(cs) :
                  /\ chapters.v[i].v.eId = Str(<<EIdTok[cs[i]]>>)
                  /\ chapters.v[i].v.chapter_num = None <=> ~HasChild(t, cs[i], "akn:num")
                  /\ chapters.v[i].v.chapter_heading = None
                        <=> ~HasChild(t, cs[i], "akn:heading")

\* C9: get_chapters stores one record for each chapter beneath the root, in
\* document order, and never raises; chapter_heading is null exactly when
\* there is no heading child, and chapter_num is null exactly when there is
\* no num child or the first num child has no text of its own.
C9_ChapterRecords ==
    last.op = "get_chapters" =>
        LET t == heap[root]
            cs == ChapterElems(t)
        IN  /\ last.out = "ok"
            /\ Len(chapters.v) = Len(cs)
            /\ \A i \in 1..Len(cs) :
                  /\ chapters.v[i].v.eId = Str(<<EIdTok[cs[i]]>>)
                  /\ chapters.v[i].v.chapter_num = None
                        <=> \/ ~HasChild(t, cs[i], "akn:num")
                            \/ t.text[FirstChild(t, cs[i], "akn:num")] = <<>>
                  /\ chapters.v[i].v.chapter_heading = None
                        <=> ~HasChild(t, cs[i], "akn:heading")

\* A chapter with a heading child and with a num child that has no text
\* has been recorded: its number is null and its heading is not.
C9_Witness ==
    /\ last.op = "get_chapters"
    /\ \E i \in 1..Len(chapters.v) :
          LET t == heap[root]
              c == ChapterElems(t)[i]
          IN  /\ HasChild(t, c, "akn:heading") /\ HasChild(t, c, "akn:num")
              /\ t.text[FirstChild(t, c, "akn:num")] = <<>>
              /\ chapters.v[i].v.chapter_num = None
              /\ chapters.v[i].v.chapter_heading # None

--------------------------------------------------------------------------
(* C4: the extractors of a section the document lacks *)

\* The loaded file is a variant of FullDoc without the element n: n or an
\* element above it is cut out.
Cut(n) == loaded.name = "full" /\ \E i \in loaded.cut : i[2] = "" /\ i[1] \in n
LacksPreface == Cut({7})
LacksPreamble == Cut({9})
LacksCitations == Cut({9, 12})
LacksRecitals == Cut({9, 16})

ReturnedNone == last.out = "ok" /\ last.val = None

--------------------------------------------------------------------------
(* C6: the order of the calls *)

ExtractionOps ==
    {"get_meta_identification", "get_meta_references", "get_meta_proprietary",
     "get_preface", "get_preamble", "get_preamble_formula", "get_preamble_citations",
     "get_preamble_recitals", "get_chapters", "get_articles"}

\* What the operation returns (for get_chapters: stores) on the tree t.
ResultOn(op, t) ==
    CASE op = "get_meta_identification" -> GetMetaIdentification(t, 1).val
      [] op = "get_meta_references" -> GetMetaReferences(t, 1).val
      [] op = "get_meta_proprietary" -> GetMetaProprietary(t, 1).val
      [] op = "get_preface" -> GetPreface(t, 1).val
      [] op = "get_preamble" -> GetPreamble(t, 1).val
      [] op = "get_preamble_formula" -> GetPreambleFormula(t, 1).val
      [] op = "get_preamble_citations" -> GetPreambleCitations(t, 1).val
      [] op = "get_preamble_recitals" -> GetPreambleRecitals(t, 1).val
      [] op = "get_chapters" -> GetChapters(t, 1)
      [] op = "get_articles" -> GetArticles(t, Locate(t, 1, "akn:body", "body")).val

\* The result of the last call.
LastResult == IF last.op = "get_chapters" THEN chapters ELSE last.val

\* The body has been located in the loaded document.
BodyLocated == root # 0 /\ body.k \in {"None", "elem"} /\ (body.k = "elem" => body.v[1] = root)

\* The loaded document with the notes removed beneath the sections named
\* in D.
WithoutNotes(t, D) ==
    LET b == Locate(t, 1, "akn:body", "body")
        c == FindPath(t, 1, <<"akn:preamble", "akn:citations">>)
        r == FindPath(t, 1, <<"akn:preamble", "akn:recitals">>)
        t1 == IF "articles" \in D /\ b # 0 THEN RemoveNode(t, b, Note) ELSE t
        t2 == IF "citations" \in D /\ c # 0 THEN RemoveNode(t1, c, Note) ELSE t1
    IN  IF "recitals" \in D /\ r # 0 THEN RemoveNode(t2, r, Note) ELSE t2

\* The claim as it stands: with the body located, what an extraction
\* operation returns is what it returns on the document as loaded.
C6_OnlyTheDocument ==
    BodyLocated /\ last.op \in ExtractionOps /\ last.out = "ok" =>
        LastResult = ResultOn(last.op, ParseTree(loaded))

\* C6: with the body located in the loaded document, what an extraction
\* operation returns depends only on the loaded document and on which of
\* the operations that remove notes (get_articles, get_preamble_citations,
\* get_preamble_recitals, get_preamble) have run before it.
C6_DocumentAndRemovals ==
    BodyLocated /\ last.op \in ExtractionOps /\ last.out = "ok" =>
        LastResult = ResultOn(last.op, WithoutNotes(ParseTree(loaded), last.before))

\* get_chapters has run after get_articles and stores a heading that is
\* not the one it stores on the document as loaded.
C6_Witness ==
    /\ BodyLocated /\ last.op = "get_chapters" /\ last.out = "ok"
    /\ "articles" \in last.before
    /\ chapters # GetChapters(ParseTree(loaded), 1)

--------------------------------------------------------------------------
(* C7: a new load *)

\* C7: after a load nothing of an earlier document is left: body and act
\* are no elements of an earlier tree, the stored lists hold no record, and
\* get_articles works on the body of the loaded tree.
C7_ReloadDiscards ==
    /\ last.op = "get_root" /\ last.out = "ok" =>
          /\ body.k = "elem" => body.v[1] = root
          /\ act.k = "elem" => act.v[1] = root
          /\ chapters.k = "list" => chapters.v = <<>>
          /\ articles.k = "list" => articles.v = <<>>
    /\ last.op = "get_articles" /\ last.out = "ok" => body.v[1] = root

--------------------------------------------------------------------------
(* C10: the errors of get_root *)

--------------------------------------------------------------------------
(* C8: the metadata extractors *)

\* What the loaded variant of MetaDoc lacks: the element n (it or an
\* element above it is cut out), an attribute of n, the text of n.
RECURSIVE Gone(_)
Gone(n) == n # 0 /\ (<<n, "">> \in loaded.cut \/ Gone(MetaDoc.parent[n]))
AttrGone(n) == \E a \in MetaDoc.attr[n] : <<n, a[1]>> \in loaded.cut
TextGone(n) == <<n, "#text">> \in loaded.cut

\* The groups of the identification, with the key of each in the record.
Groups == {<<5, "work">>, <<13, "expression">>, <<19, "manifestation">>}
Members(g) == {c \in DOMAIN MetaDoc.parent : MetaDoc.parent[c] = g}

\* An element or an attribute that the operation reads is missing under
\* its top-level element.
MissingUnder(ns) == \E i \in loaded.cut : i[2] # "#text" /\ i[1] \in ns

\* The record holds a null.
HoldsNull(op, val) ==
    CASE op = "get_meta_identification" ->
            \E part \in {"work", "expression", "manifestation"} :
                \/ val.v[part] = None
                \/ \E i \in 1..Len(val.v[part].v) : val.v[part].v[i][2] = None
      [] op = "get_meta_references" ->
            \E key \in {"eId", "href", "showAs"} : val.v[key] = None
      [] op = "get_meta_proprietary" ->
            \E key \in {"file", "coll", "year", "lg_doc", "no_seq"} : val.v[key] = None

MetaTop(op) ==
    CASE op = "get_meta_identification" -> 4
      [] op = "get_meta_references" -> 25
      [] op = "get_meta_proprietary" -> 26
MetaBelow(op) ==
    CASE op = "get_meta_identification" -> 5..23
      [] op = "get_meta_references" -> {25}
      [] op = "get_meta_proprietary" -> 27..31

MetaOps == {"get_meta_identification", "get_meta_references", "get_meta_proprietary"}

\* The claim as it stands: null when the top-level element is absent, an
\* error when it is there and an expected attribute or child element is
\* missing, and never a record that holds a null.
C8_AbsentNullMissingFails ==
    last.op \in MetaOps =>
        /\ Gone(MetaTop(last.op)) => ReturnedNone
        /\ ~Gone(MetaTop(last.op)) /\ MissingUnder(MetaBelow(last.op))
              => last.out = "AttributeError"
        /\ last.out = "ok" /\ last.val # None => ~HoldsNull(last.op, last.val)

\* C8: each extractor returns null when its top-level element is absent
\* (get_meta_proprietary also when DOCUMENT.REF is absent). It fails with
\* an AttributeError exactly when a child element it reads a value from is
\* missing in a group that is there (a child of FRBRWork, FRBRExpression or
\* FRBRManifestation; COLL, YEAR, LG.DOC, NO.SEQ). Otherwise it returns a
\* record in which a missing group, a missing attribute and a missing text
\* are null.
C8_MetaOutcome ==
    /\ last.op = "get_meta_identification" =>
          IF Gone(4) THEN ReturnedNone
          ELSE /\ last.out = "AttributeError"
                    <=> \E g \in Groups : ~Gone(g[1]) /\ \E c \in Members(g[1]) : Gone(c)
               /\ last.out \in {"ok", "AttributeError"}
               /\ last.out = "ok" =>
                     \A g \in Groups :
                        IF Gone(g[1]) THEN last.val.v[g[2]] = None
                        ELSE /\ last.val.v[g[2]].k = "dict"
                             /\ \A i \in 1..Len(last.val.v[g[2]].v) :
                                   last.val.v[g[2]].v[i][2] = None <=> AttrGone(g[1] + i)
    /\ last.op = "get_meta_references" =>
          IF Gone(25) THEN ReturnedNone
          ELSE /\ last.out = "ok"
               /\ \A key \in {"eId", "href", "showAs"} :
                     last.val.v[key] = None <=> <<25, key>> \in loaded.cut
    /\ last.op = "get_meta_proprietary" =>
          IF Gone(26) \/ Gone(27) THEN ReturnedNone
          ELSE /\ last.out = "AttributeError" <=> \E c \in 28..31 : Gone(c)
               /\ last.out \in {"ok", "AttributeError"}
               /\ last.out = "ok" =>
                     /\ last.val.v.file = None <=> AttrGone(27)
                     /\ last.val.v.coll = None <=> TextGone(28)
                     /\ last.val.v.year = None <=> TextGone(29)
                     /\ last.val.v.lg_doc = None <=> TextGone(30)
                     /\ last.val.v.no_seq = None <=> TextGone(31)

\* get_meta_identification has returned a record for a document whose
\* FRBRthis of the work has no value attribute: the value is null.
C8_Witness ==
    /\ last.op = "get_meta_identification" /\ last.out = "ok"
    /\ <<6, "value">> \in loaded.cut
    /\ last.val.v.work.v[1] = <<"FRBRthis", None>>

--------------------------------------------------------------------------
(* get_body and get_articles on any document of MaxNodes + 1 elements    *)
(* whose root holds the body and whose body holds an article first:       *)
(* beneath the body articles, nums, headings and notes in every shape,    *)
(* every element but the root with a tail, at most one element without    *)
(* text.                                                                  *)

ArticleNodes == 1..(MaxNodes + 1)
ArticleTags == {"akn:article", "akn:num", "akn:heading", "akn:authorialNote"}

\* The parents of the elements after the first article: an element
\* before them, from the body on.
ArticleShapes ==
    {p \in [4..(MaxNodes + 1) -> 2..MaxNodes] : \A i \in 4..(MaxNodes + 1) : p[i] < i}

ArticleTextChoices == {ArticleNodes} \cup {ArticleNodes \ {i} : i \in 4..(MaxNodes + 1)}

ArticleTree(par, tg, wx) ==
    Tree([i \in ArticleNodes |-> IF i <= 3 THEN i - 1 ELSE par[i]],
         [i \in ArticleNodes |-> CASE i = 1 -> "akn:akomaNtoso"
                               [] i = 2 -> "akn:body"
                               [] i = 3 -> "akn:article"
                               [] OTHER -> tg[i]],
         [i \in ArticleNodes |-> {<<"eId", <<EIdTok[i]>>>>}],
         [i \in ArticleNodes |-> IF i \in wx THEN <<TextTok[i]>> ELSE <<>>],
         [i \in ArticleNodes |-> IF i = 1 THEN <<>> ELSE <<TailTok[i]>>])

InitArticles ==
    /\ \E par \in ArticleShapes, tg \in [4..(MaxNodes + 1) -> ArticleTags],
          wx \in ArticleTextChoices : heap = <<ArticleTree(par, tg, wx)>>
    /\ root = 1
    /\ body = Unset /\ act = Unset /\ chapters = Unset /\ articles = Unset
    /\ loaded = GivenTree
    /\ done = {}
    /\ last = NoCall

NextArticles == CallGetBody \/ CallGetArticles
SpecArticles == InitArticles /\ [][NextArticles]_vars

--------------------------------------------------------------------------
(* C11: the number and the title of an article *)

\* The articles beneath the body and the children of n with a tag, in
\* document order.
ArticleElems(t, b) == SelectSeq(DescSeq(t, b), LAMBDA a : t.tag[a] = "akn:article")
ChildrenOf(t, n, tag) == SelectSeq(t.kids[n], LAMBDA c : t.tag[c] = tag)

\* The text of the element itself, null when it has none.
DirectTextOf(t, n) == IF t.text[n] = <<>> THEN None ELSE Str(t.text[n])

\* C11: get_articles returns one record for each article beneath the body,
\* in document order. article_title is the direct text of the heading
\* child when there is one, else the direct text of the second num child
\* when there is more than one num child, else null. article_num is the
\* direct text of the first num child, null when there is none. The texts
\* are read once the notes are removed from the body.
C11_NumberAndTitle ==
    last.op = "get_articles" /\ last.out = "ok" =>
        LET t == heap[body.v[1]]
            as == ArticleElems(t, body.v[2])
        IN  /\ Len(last.val.v) = Len(as)
            /\ articles = last.val
            /\ \A i \in 1..Len(as) :
                  LET rec == last.val.v[i].v
                      headings == ChildrenOf(t, as[i], "akn:heading")
                      nums == ChildrenOf(t, as[i], "akn:num")
                  IN  /\ rec.eId = Str(<<EIdTok[as[i]]>>)
                      /\ rec.article_title =
                            (CASE Len(headings) > 0 -> DirectTextOf(t, headings[1])
                               [] Len(headings) = 0 /\ Len(nums) > 1 -> DirectTextOf(t, nums[2])
                               [] OTHER -> None)
                      /\ rec.article_num =
                            (IF Len(nums) > 0 THEN DirectTextOf(t, nums[1]) ELSE None)

\* An article without a heading and with two num children has been
\* recorded: its title is the text of the second num, its number the text
\* of the first.
C11_Witness ==
    /\ last.op = "get_articles" /\ last.out = "ok"
    /\ \E i \in 1..Len(last.val.v) :
          LET t == heap[body.v[1]]
              a == ArticleElems(t, body.v[2])[i]
              nums == ChildrenOf(t, a, "akn:num")
          IN  /\ ChildrenOf(t, a, "akn:heading") = <<>>
              /\ Len(nums) = 2
              /\ last.val.v[i].v.article_title = Str(t.text[nums[2]])
              /\ last.val.v[i].v.article_num = Str(t.text[nums[1]])
              /\ last.val.v[i].v.article_title # last.val.v[i].v.article_num

--------------------------------------------------------------------------
(* get_preamble_recitals on any document of MaxNodes + 2 elements whose   *)
(* root holds a preamble with a recitals section: beneath the section     *)
(* intros, recitals, paragraphs and notes in every shape, every element   *)
(* but the root with an eId and a tail, at most one element without text. *)

RecitalNodes == 1..(MaxNodes + 2)
RecitalFree == 4..(MaxNodes + 2)
RecitalTags == {"akn:intro", "akn:recital", "akn:p", "akn:authorialNote"}

\* The parents of the elements after the section: an element before
\* them, from the section on.
RecitalShapes ==
    {p \in [RecitalFree -> 3..(MaxNodes + 1)] : \A i \in RecitalFree : p[i] < i}

RecitalTextChoices == {RecitalNodes} \cup {RecitalNodes \ {i} : i \in RecitalFree}

RecitalTree(par, tg, wx) ==
    Tree([i \in RecitalNodes |-> IF i <= 3 THEN i - 1 ELSE par[i]],
         [i \in RecitalNodes |-> CASE i = 1 -> "akn:akomaNtoso"
                               [] i = 2 -> "akn:preamble"
                               [] i = 3 -> "akn:recitals"
                               [] OTHER -> tg[i]],
         [i \in RecitalNodes |-> IF i = 1 THEN {} ELSE {<<"eId", <<EIdTok[i - 1]>>>>}],
         [i \in RecitalNodes |-> IF i = 1 \/ i \notin wx THEN <<>> ELSE <<TextTok[i - 1]>>],
         [i \in RecitalNodes |-> IF i = 1 THEN <<>> ELSE <<TailTok[i - 1]>>])

InitRecitals ==
    /\ \E par \in RecitalShapes, tg \in [RecitalFree -> RecitalTags],
          wx \in RecitalTextChoices : heap = <<RecitalTree(par, tg, wx)>>
    /\ root = 1
    /\ body = Unset /\ act = Unset /\ chapters = Unset /\ articles = Unset
    /\ loaded = GivenTree
    /\ done = {}
    /\ last = NoCall

NextRecitals == CallGetPreambleRecitals
SpecRecitals == InitRecitals /\ [][NextRecitals]_vars

--------------------------------------------------------------------------
(* C12: the entries of get_preamble_recitals *)

\* The direct text of the paragraphs of n that have one, joined by spaces.
ParagraphTextOf(t, n) ==
    LET ps == SelectSeq(ChildrenOf(t, n, "akn:p"), LAMBDA p : t.text[p] # <<>>)
    IN  Join(<<" ">>, [i \in 1..Len(ps) |-> t.text[ps[i]]])

\* C12: a call of get_preamble_recitals on a document with a recitals
\* section returns a list of one entry and one more for each recital child
\* of the section: first the entry of the intro, with the eId of the intro
\* and the direct text of its paragraphs as they are before the call
\* removes the notes, joined by spaces, then the entries of the recitals
\* in document order.
C12_IntroThenRecitals ==
    [][LET t == heap[root]
           section == FindPath(t, 1, <<"akn:preamble", "akn:recitals">>)
           intros == ChildrenOf(t, section, "akn:intro")
           recitals == ChildrenOf(t, section, "akn:recital")
       IN  last'.op = "get_preamble_recitals" /\ root # 0 /\ section # 0 =>
              /\ last'.out = "ok"
              /\ last'.val.k = "list"
              /\ Len(last'.val.v) = 1 + Len(recitals)
              /\ intros # <<>> =>
                    /\ last'.val.v[1].v.eId = Get(t, intros[1], "eId")
                    /\ last'.val.v[1].v.recital_text = Str(ParagraphTextOf(t, intros[1]))
              /\ \A i \in 1..Len(recitals) :
                    last'.val.v[i + 1].v.eId = Get(t, recitals[i], "eId")]_vars

====
